---- MODULE Spec2Model ----
(***************************************************************************)
(* Parameter-range evaluation of the quality-inspection dashboard          *)
(* (src/app.py): the range resolver get_parameter_ranges, the status       *)
(* classifier get_parameter_status, the per-record parameter analysis of   *)
(* the Track ID Search tab, the failure analysis of the Overall Analysis   *)
(* tab and the filters and labels of the Parameter Comparison tab.         *)
(*                                                                         *)
(* Python floats are modelled as records [nan, v]: either the IEEE NaN or  *)
(* the number v.  Only integers are drawn, so v - w is exact; rounding of  *)
(* the subtraction is outside the model.  Every comparison with NaN is     *)
(* false, as in IEEE 754.                                                  *)
(***************************************************************************)
EXTENDS Integers, Sequences, FiniteSets, TLC

VARIABLES
    param_value,   \* get_parameter_status: the raw argument param_value
    min_val,       \* get_parameter_status: the raw argument min_val
    max_val,       \* get_parameter_status: the raw argument max_val
    cres,          \* get_parameter_status: what the call produced
    cpc,           \* get_parameter_status: "idle" | "call" | "returned"
    df,            \* get_parameter_ranges: the rows of the DataFrame
    idx,           \* get_parameter_ranges: rows consumed by df.iterrows()
    ranges,        \* get_parameter_ranges: the dict being built
    rpc,           \* get_parameter_ranges: position in the function
    rec,                  \* Track ID Search: the record found (filtered_df, row 0)
    row_ranges,           \* Track ID Search: the ranges the dataset rows give
    parameter_ranges,     \* Track ID Search: parameter_ranges
    failed_params,        \* Track ID Search: failed_params ("Failed Parameters")
    valid_params,         \* Track ID Search: valid_params
    in_range_params,      \* Track ID Search: in_range_params
    out_of_range_params,  \* Track ID Search: out_of_range_params
    failures,             \* Track ID Search: failures
    shown_failures,       \* Track ID Search: the failures in displayed order
    overall,              \* Track ID Search: the "Overall Status" metric, "" if not drawn
    gpos,                 \* Track ID Search: parameters of parameter_groups visited
    epc,                  \* Track ID Search: position in the parameter analysis
    pdf,                  \* Overall Analysis: the rows of the DataFrame
    not_ok_rows,          \* Overall Analysis: not_ok_rows (as row numbers of pdf)
    not_ok_track_ids,     \* Overall Analysis: not_ok_track_ids
    pop_ranges,           \* Overall Analysis: param_ranges
    param_failures,       \* Overall Analysis: param_failures
    failure_data,         \* Overall Analysis: failure_data, as displayed
    failure_keys,         \* Overall Analysis: list(param_failures.keys())
    tpos,                 \* Overall Analysis: Track IDs of not_ok_track_ids processed
    ppc,                  \* Overall Analysis: position in the failure analysis
    cmp_df,               \* Parameter Comparison: the rows of the DataFrame
    grade_column_present, \* Parameter Comparison: 'GRADE' in df.columns
    selected_parameter,   \* Parameter Comparison: selected_parameter
    selected_grade,       \* Parameter Comparison: selected_grade
    selected_machine,     \* Parameter Comparison: selected_machine
    filtered_data,        \* Parameter Comparison: filtered_data
    all_tracks_data,      \* Parameter Comparison: all_tracks_data
    param_range,          \* Parameter Comparison: param_min, param_max, param_avg
    track_ids,            \* Parameter Comparison: track_ids
    track_values,         \* Parameter Comparison: track_values
    kpos,                 \* Parameter Comparison: Track IDs of track_ids processed
    xpc                   \* Parameter Comparison: position in the comparison

classifyVars == <<param_value, min_val, max_val, cres, cpc>>
rangeVars == <<df, idx, ranges, rpc>>
recordVars == <<rec, row_ranges, parameter_ranges, failed_params, valid_params,
                in_range_params, out_of_range_params, failures, shown_failures,
                overall, gpos, epc>>

popVars == <<pdf, not_ok_rows, not_ok_track_ids, pop_ranges, param_failures,
             failure_data, failure_keys, tpos, ppc>>

compareVars == <<cmp_df, grade_column_present, selected_parameter, selected_grade,
                 selected_machine, filtered_data, all_tracks_data, param_range,
                 track_ids, track_values, kpos, xpc>>

vars == <<classifyVars, rangeVars, recordVars, popVars, compareVars>>

----------------------------------------------------------------------------
(* Bounds of the model *)

\* numbers drawn as inputs are 5*k for k in -1..MaxK
MaxK == 5
\* rows of the DataFrame
MaxRows == 3

----------------------------------------------------------------------------
(* Floats *)

F(n) == [nan |-> FALSE, v |-> n]
NaN == [nan |-> TRUE, v |-> 0]

Lt(a, b) == ~a.nan /\ ~b.nan /\ a.v < b.v
Le(a, b) == ~a.nan /\ ~b.nan /\ a.v <= b.v
Gt(a, b) == ~a.nan /\ ~b.nan /\ a.v > b.v
FEq(a, b) == ~a.nan /\ ~b.nan /\ a.v = b.v
Sub(a, b) == IF a.nan \/ b.nan THEN NaN ELSE F(a.v - b.v)

----------------------------------------------------------------------------
(* Raw values: what a DataFrame cell or an argument can hold *)

Num(n) == [kind |-> "num", n |-> n, s |-> <<>>]
NanCell == [kind |-> "nan", n |-> 0, s |-> <<>>]
NoneCell == [kind |-> "none", n |-> 0, s |-> <<>>]
Str(s) == [kind |-> "str", n |-> 0, s |-> s]
\* a cell of an integer column: .iloc[0] gives a numpy.int64
Int64(n) == [kind |-> "int", n |-> n, s |-> <<>>]

Nums == {5 * k : k \in -1..MaxK}

IsDigit(c) == c \in {"0", "1", "2", "3", "4", "5", "6", "7", "8", "9"}

DigitVal(c) ==
    CASE c = "0" -> 0 [] c = "1" -> 1 [] c = "2" -> 2 [] c = "3" -> 3
      [] c = "4" -> 4 [] c = "5" -> 5 [] c = "6" -> 6 [] c = "7" -> 7
      [] c = "8" -> 8 [] c = "9" -> 9

RECURSIVE DigitsVal(_)
DigitsVal(s) ==
    IF Len(s) = 0 THEN 0
    ELSE 10 * DigitsVal(SubSeq(s, 1, Len(s) - 1)) + DigitVal(s[Len(s)])

AllDigits(s) == Len(s) > 0 /\ \A i \in 1..Len(s) : IsDigit(s[i])

\* float(x) of Python, on the values the model draws.  A str is parsed:
\* "nan" gives NaN, an optionally signed run of decimal digits gives its
\* number, anything else raises ValueError; None raises TypeError.
float(x) ==
    CASE x.kind = "num" -> [exc |-> "", f |-> F(x.n)]
      [] x.kind = "int" -> [exc |-> "", f |-> F(x.n)]
      [] x.kind = "nan" -> [exc |-> "", f |-> NaN]
      [] x.kind = "none" -> [exc |-> "TypeError", f |-> NaN]
      [] x.kind = "str" ->
            IF x.s = <<"n", "a", "n">> THEN [exc |-> "", f |-> NaN]
            ELSE IF AllDigits(x.s) THEN [exc |-> "", f |-> F(DigitsVal(x.s))]
            ELSE IF Len(x.s) > 1 /\ x.s[1] = "-" /\ AllDigits(Tail(x.s))
                 THEN [exc |-> "", f |-> F(0 - DigitsVal(Tail(x.s)))]
            ELSE [exc |-> "ValueError", f |-> NaN]

----------------------------------------------------------------------------
(* get_parameter_status *)

\* except (ValueError, TypeError): the exceptions the handler catches
CaughtOnlyValueError(exc) == exc = "ValueError"
Caught(exc) == exc \in {"ValueError", "TypeError"}

\* if min_val > max_val: (the swap condition)
NeverSwap(mn, mx) == FALSE
NeedSwap(mn, mx) == Gt(mn, mx)

\* if min_val <= param_value <= max_val:
InRangeExclusive(v, lo, hi) == Lt(lo, v) /\ Lt(v, hi)
InRange(v, lo, hi) == Le(lo, v) /\ Le(v, hi)

\* deviation = param_value - min_val   /   deviation = param_value - max_val
DeviationFlipped(v, bound) == Sub(bound, v)
Deviation(v, bound) == Sub(v, bound)

\* the body of the try block, on the three coerced floats
Classify(v, mn, mx) ==
    LET lo == IF NeedSwap(mn, mx) THEN mx ELSE mn
        hi == IF NeedSwap(mn, mx) THEN mn ELSE mx
    IN  IF InRange(v, lo, hi)
        THEN [status |-> "PASS", deviation |-> F(0), raised |-> ""]
        ELSE IF Lt(v, lo)
        THEN [status |-> "FAIL_LOW", deviation |-> Deviation(v, lo), raised |-> ""]
        ELSE [status |-> "FAIL_HIGH", deviation |-> Deviation(v, hi), raised |-> ""]

\* the first exception the three float() calls raise, in the order of the code
FirstExc(pv, mn, mx) ==
    IF float(pv).exc # "" THEN float(pv).exc
    ELSE IF float(mn).exc # "" THEN float(mn).exc
    ELSE float(mx).exc

\* a result with raised # "" stands for the exception leaving the function
get_parameter_status(pv, mn, mx) ==
    LET e == FirstExc(pv, mn, mx)
    IN  IF e = "" THEN Classify(float(pv).f, float(mn).f, float(mx).f)
        ELSE IF Caught(e)
        THEN [status |-> "INVALID", deviation |-> F(0), raised |-> ""]
        ELSE [status |-> "", deviation |-> F(0), raised |-> e]

NoResult == [status |-> "", deviation |-> F(0), raised |-> ""]

\* the strings drawn as arguments: "15", "-5", "abc", "" and "nan"
ArgStrings == {<<"1", "5">>, <<"-", "5">>, <<"a", "b", "c">>, <<>>, <<"n", "a", "n">>}

ArgValues ==
    {Num(n) : n \in Nums} \cup {NanCell, NoneCell} \cup {Str(s) : s \in ArgStrings}

\* ranges = {}
EmptyDict == [p \in {} |-> [min |-> NaN, max |-> NaN, avg |-> NaN]]

RangesIdle == df = <<>> /\ idx = 0 /\ ranges = EmptyDict /\ rpc = "idle"

RecordIdle ==
    /\ rec = <<>> /\ row_ranges = EmptyDict /\ parameter_ranges = EmptyDict
    /\ failed_params = <<>> /\ valid_params = <<>> /\ in_range_params = <<>>
    /\ out_of_range_params = <<>> /\ failures = <<>> /\ shown_failures = <<>>
    /\ overall = "" /\ gpos = 0 /\ epc = "idle"

CompareIdle ==
    /\ cmp_df = <<>> /\ grade_column_present = FALSE
    /\ selected_parameter = "" /\ selected_grade = <<>> /\ selected_machine = 0
    /\ filtered_data = <<>> /\ all_tracks_data = <<>>
    /\ param_range = [min |-> NaN, max |-> NaN, avg |-> NaN]
    /\ track_ids = <<>> /\ track_values = <<>> /\ kpos = 0 /\ xpc = "idle"

PopIdle ==
    /\ pdf = <<>> /\ not_ok_rows = <<>> /\ not_ok_track_ids = <<>>
    /\ pop_ranges = EmptyDict /\ param_failures = <<>> /\ failure_data = <<>>
    /\ failure_keys = <<>> /\ tpos = 0 /\ ppc = "idle"

InitClassify ==
    /\ param_value \in ArgValues
    /\ min_val \in ArgValues
    /\ max_val \in ArgValues
    /\ cres = NoResult
    /\ cpc = "call"
    /\ RangesIdle /\ RecordIdle /\ PopIdle /\ CompareIdle

CallStatus ==
    /\ cpc = "call"
    /\ cres' = get_parameter_status(param_value, min_val, max_val)
    /\ cpc' = "returned"
    /\ UNCHANGED <<param_value, min_val, max_val>>
    /\ UNCHANGED <<rangeVars, recordVars, popVars, compareVars>>

NextClassify == CallStatus

SpecClassify == InitClassify /\ [][NextClassify]_vars

----------------------------------------------------------------------------
(* Claims about get_parameter_status, checked under SpecClassify *)

pvF == float(param_value).f
mnF == float(min_val).f
mxF == float(max_val).f

\* float() succeeded on all three arguments
AllCoerced ==
    float(param_value).exc = "" /\ float(min_val).exc = "" /\ float(max_val).exc = ""

AnyNaN == pvF.nan \/ mnF.nan \/ mxF.nan

Returned == cpc = "returned"

Result(st, dev) == [status |-> st, deviation |-> dev, raised |-> ""]

\* C1: every numeric triple with min <= value <= max, the two ends included,
\* is classified exactly (PASS, 0.0).
C1_PassInRange ==
    (Returned /\ AllCoerced /\ Le(mnF, pvF) /\ Le(pvF, mxF))
        => cres = Result("PASS", F(0))

\* C1 witness: a call with value = min < max has returned PASS.
C1_Witness ==
    /\ Returned /\ AllCoerced
    /\ FEq(pvF, mnF) /\ Lt(mnF, mxF)
    /\ cres.status = "PASS"

\* C2: with lo the smaller and hi the larger of (min, max), value < lo gives
\* (FAIL_LOW, value - lo) and value > hi gives (FAIL_HIGH, value - hi); and
\* classify(25,10,20) = (FAIL_HIGH, 5), classify(5,10,20) = (FAIL_LOW, -5),
\* classify(15,20,10) = (PASS, 0).
C2_FailLowHigh ==
    /\ (Returned /\ AllCoerced /\ ~mnF.nan /\ ~mxF.nan) =>
          LET lo == IF mnF.v <= mxF.v THEN mnF ELSE mxF
              hi == IF mnF.v <= mxF.v THEN mxF ELSE mnF
          IN  /\ Lt(pvF, lo) => cres = Result("FAIL_LOW", F(pvF.v - lo.v))
              /\ Gt(pvF, hi) => cres = Result("FAIL_HIGH", F(pvF.v - hi.v))
    /\ (Returned /\ param_value = Num(25) /\ min_val = Num(10) /\ max_val = Num(20))
          => cres = Result("FAIL_HIGH", F(5))
    /\ (Returned /\ param_value = Num(5) /\ min_val = Num(10) /\ max_val = Num(20))
          => cres = Result("FAIL_LOW", F(-5))
    /\ (Returned /\ param_value = Num(15) /\ min_val = Num(20) /\ max_val = Num(10))
          => cres = Result("PASS", F(0))

\* C2 witness: classify(25, 10, 20) has returned FAIL_HIGH.
C2_Witness ==
    /\ Returned
    /\ param_value = Num(25) /\ min_val = Num(10) /\ max_val = Num(20)
    /\ cres.status = "FAIL_HIGH"

\* C3: for bounds with min > max the call returns what the call with the two
\* bounds exchanged returns.
C3_SwapSymmetric ==
    (Returned /\ float(min_val).exc = "" /\ float(max_val).exc = "" /\ Gt(mnF, mxF))
        => cres = get_parameter_status(param_value, max_val, min_val)

\* C3 witness: a call with min > max and the value between them has returned.
C3_Witness ==
    /\ Returned /\ AllCoerced
    /\ Gt(mnF, mxF) /\ Lt(mxF, pvF) /\ Lt(pvF, mnF)
    /\ cres.status = "PASS"

\* C4 as stated: for every result, deviation < 0 iff FAIL_LOW, deviation > 0
\* iff FAIL_HIGH, and deviation == 0 iff PASS.
C4_SignInvariantAsStated ==
    Returned =>
        /\ Lt(cres.deviation, F(0)) <=> cres.status = "FAIL_LOW"
        /\ Gt(cres.deviation, F(0)) <=> cres.status = "FAIL_HIGH"
        /\ FEq(cres.deviation, F(0)) <=> cres.status = "PASS"

\* C4 amended: for every result, PASS or INVALID implies deviation == 0,
\* FAIL_LOW implies deviation < 0, and deviation > 0 implies FAIL_HIGH; and
\* when none of the coerced arguments is NaN, deviation < 0 iff FAIL_LOW,
\* deviation > 0 iff FAIL_HIGH, and deviation == 0 iff PASS or INVALID.
C4_SignInvariant ==
    Returned =>
        /\ cres.status \in {"PASS", "INVALID"} => FEq(cres.deviation, F(0))
        /\ cres.status = "FAIL_LOW" => Lt(cres.deviation, F(0))
        /\ Gt(cres.deviation, F(0)) => cres.status = "FAIL_HIGH"
        /\ ~(AllCoerced /\ AnyNaN) =>
              /\ Lt(cres.deviation, F(0)) <=> cres.status = "FAIL_LOW"
              /\ Gt(cres.deviation, F(0)) <=> cres.status = "FAIL_HIGH"
              /\ FEq(cres.deviation, F(0)) <=> cres.status \in {"PASS", "INVALID"}

\* C4 witness: a call has returned FAIL_LOW with a negative deviation.
C4_Witness ==
    /\ Returned /\ AllCoerced /\ ~AnyNaN
    /\ cres.status = "FAIL_LOW" /\ Lt(cres.deviation, F(0))

\* C5: when float() fails on any one of the three arguments the call returns
\* (INVALID, 0.0) and no exception leaves it, whatever the other two are.
C5_InvalidOnCoercionFailure ==
    (Returned /\ ~AllCoerced) => cres = Result("INVALID", F(0))

\* C5 witness: a call whose value is a number and whose min is None has
\* returned INVALID.
C5_Witness ==
    /\ Returned
    /\ float(param_value).exc = "" /\ float(min_val).exc = "TypeError"
    /\ cres.status = "INVALID"

----------------------------------------------------------------------------
(* get_parameter_ranges *)

ClassifyIdle ==
    /\ param_value = NoneCell /\ min_val = NoneCell /\ max_val = NoneCell
    /\ cres = NoResult /\ cpc = "idle"

Range(mn, mx, av) == [min |-> mn, max |-> mx, avg |-> av]

\* ranges[param] = value
Put(rs, param, value) ==
    [p \in DOMAIN rs \cup {param} |-> IF p = param THEN value ELSE rs[p]]

\* if param not in ranges:   (line 34)
NeverPresent(rs, param) == FALSE
AlreadyPresent(rs, param) == param \in DOMAIN rs

\* the first exception float(row['Min']), float(row['Max']),
\* float(row['Average']) raise, in that order; "" when all three parse
RowExc(row) ==
    IF float(row.Min).exc # "" THEN float(row.Min).exc
    ELSE IF float(row.Max).exc # "" THEN float(row.Max).exc
    ELSE float(row.Average).exc

\* {'min': float(row['Min']), 'max': float(row['Max']), 'avg': float(row['Average'])}
RowRange(row) == Range(float(row.Min).f, float(row.Max).f, float(row.Average).f)

\* the ranges the function adds when the dataset gave none for the name
CaliperDefault == Range(F(250), F(300), F(275))
BulkDefault == Range(F(250), F(350), F(300))
MoistureDefault == Range(F(200), F(280), F(240))

\* if 'CALIPER' not in ranges:  /  if param not in ranges:   (lines 45, 62)
DefaultAlways(rs, name) == TRUE
DefaultNever(rs, name) == FALSE
DefaultNeeded(rs, name) == name \notin DOMAIN rs

\* for param, range_values in default_ranges.items(): ...
WithDefault(rs, name, value) ==
    IF DefaultNeeded(rs, name) THEN Put(rs, name, value) ELSE rs

ParamNames == {"CALIPER", "BULK", "MOISTURE", "GSM"}

\* the Min, Max, Average cells of the rows drawn: two plain ranges, one with
\* Min > Max, one whose Min does not parse, one held as numeric text, one
\* with a missing (NaN) Min
RangeCells ==
    { <<Num(10), Num(20), Num(15)>>,
      <<Num(100), Num(200), Num(150)>>,
      <<Num(20), Num(10), Num(15)>>,
      <<Str(<<"a", "b", "c">>), Num(20), Num(15)>>,
      <<Str(<<"3", "0">>), Str(<<"4", "0">>), Str(<<"3", "5">>)>>,
      <<NanCell, Num(20), Num(15)>> }

Rows ==
    { [Process_Parameters |-> n, Min |-> c[1], Max |-> c[2], Average |-> c[3]] :
        n \in ParamNames, c \in RangeCells }

DataFrames == UNION { [1..k -> Rows] : k \in 0..MaxRows }

InitRanges ==
    /\ df \in DataFrames
    /\ idx = 0
    /\ ranges = EmptyDict
    /\ rpc = "loop"
    /\ ClassifyIdle /\ RecordIdle /\ PopIdle /\ CompareIdle

\* one turn of `for index, row in df.iterrows()` on a name already in ranges
RowSkipped ==
    /\ rpc = "loop" /\ idx < Len(df)
    /\ AlreadyPresent(ranges, df[idx + 1].Process_Parameters)
    /\ idx' = idx + 1
    /\ UNCHANGED <<df, ranges, rpc>>
    /\ UNCHANGED <<classifyVars, recordVars, popVars, compareVars>>

\* one turn of the loop that inserts the row's range
RowInserted ==
    /\ rpc = "loop" /\ idx < Len(df)
    /\ ~AlreadyPresent(ranges, df[idx + 1].Process_Parameters)
    /\ RowExc(df[idx + 1]) = ""
    /\ ranges' = Put(ranges, df[idx + 1].Process_Parameters, RowRange(df[idx + 1]))
    /\ idx' = idx + 1
    /\ UNCHANGED <<df, rpc>>
    /\ UNCHANGED <<classifyVars, recordVars, popVars, compareVars>>

\* one turn of the loop in which float() raises: the function has no handler,
\* the exception leaves get_parameter_ranges
RowRaises ==
    /\ rpc = "loop" /\ idx < Len(df)
    /\ ~AlreadyPresent(ranges, df[idx + 1].Process_Parameters)
    /\ RowExc(df[idx + 1]) # ""
    /\ rpc' = "raised"
    /\ UNCHANGED <<df, idx, ranges>>
    /\ UNCHANGED <<classifyVars, recordVars, popVars, compareVars>>

\* the loop is over: if 'CALIPER' not in ranges: ranges['CALIPER'] = {...}
AddCaliperDefault ==
    /\ rpc = "loop" /\ idx = Len(df)
    /\ ranges' = WithDefault(ranges, "CALIPER", CaliperDefault)
    /\ rpc' = "defaults"
    /\ UNCHANGED <<df, idx>>
    /\ UNCHANGED <<classifyVars, recordVars, popVars, compareVars>>

\* the loop over default_ranges (BULK, then MOISTURE), then return ranges
AddDefaultRanges ==
    /\ rpc = "defaults"
    /\ ranges' = WithDefault(WithDefault(ranges, "BULK", BulkDefault),
                             "MOISTURE", MoistureDefault)
    /\ rpc' = "done"
    /\ UNCHANGED <<df, idx>>
    /\ UNCHANGED <<classifyVars, recordVars, popVars, compareVars>>

NextRanges ==
    \/ RowSkipped
    \/ RowInserted
    \/ RowRaises
    \/ AddCaliperDefault
    \/ AddDefaultRanges

SpecRanges == InitRanges /\ [][NextRanges]_vars

----------------------------------------------------------------------------
(* Claims about get_parameter_ranges, checked under SpecRanges *)

\* the rows of df that carry the name
RowsOf(name) == {i \in 1..Len(df) : df[i].Process_Parameters = name}

\* the first row of df that carries the name
FirstRowOf(name) == CHOOSE i \in RowsOf(name) : \A j \in RowsOf(name) : i <= j

DefaultNames == {"CALIPER", "BULK", "MOISTURE"}

DefaultOf(name) ==
    CASE name = "CALIPER" -> CaliperDefault
      [] name = "BULK" -> BulkDefault
      [] name = "MOISTURE" -> MoistureDefault

\* C6: an entry of ranges, once inserted, is never changed or removed by a
\* later step, and the returned entry of every name that appears in
\* Process_Parameters is the Min/Max/Average of the first row of that name.
C6_FirstSeenWins ==
    /\ [][\A p \in DOMAIN ranges : p \in DOMAIN ranges' /\ ranges'[p] = ranges[p]]_vars
    /\ [](rpc = "done" =>
            \A i \in 1..Len(df) :
                LET name == df[i].Process_Parameters
                IN  /\ name \in DOMAIN ranges
                    /\ ranges[name] = RowRange(df[FirstRowOf(name)]))

\* C6 witness: rows (CALIPER,10,20,15), (CALIPER,100,200,150) have resolved
\* CALIPER to {10, 20, 15}.
C6_Witness ==
    /\ rpc = "done"
    /\ Len(df) = 2
    /\ df[1] = [Process_Parameters |-> "CALIPER",
                Min |-> Num(10), Max |-> Num(20), Average |-> Num(15)]
    /\ df[2] = [Process_Parameters |-> "CALIPER",
                Min |-> Num(100), Max |-> Num(200), Average |-> Num(150)]
    /\ ranges["CALIPER"] = Range(F(10), F(20), F(15))

\* C7: when the dataset has a row named CALIPER, BULK or MOISTURE, the
\* returned range of that name is the row's range and not the default.
C7_DefaultsOnlyIfAbsent ==
    rpc = "done" =>
        \A name \in DefaultNames :
            RowsOf(name) # {} =>
                /\ ranges[name] = RowRange(df[FirstRowOf(name)])
                /\ ranges[name] # DefaultOf(name)

\* C7 witness: a dataset with a BULK row and no CALIPER row has been
\* resolved: BULK is the row's range, CALIPER the default.
C7_Witness ==
    /\ rpc = "done"
    /\ RowsOf("BULK") # {} /\ RowsOf("CALIPER") = {}
    /\ ranges["BULK"] = RowRange(df[FirstRowOf("BULK")])
    /\ ranges["CALIPER"] = CaliperDefault

\* the rows of d whose Min, Max and Average all parse
Parseable(d) == SelectSeq(d, LAMBDA row : RowExc(row) = "")

\* the map of a dataset all of whose rows parse: the rows in order, first
\* occurrence of a name kept, then the defaults for the absent names
RECURSIVE RowsResolved(_)
RowsResolved(d) ==
    IF Len(d) = 0 THEN EmptyDict
    ELSE LET rs == RowsResolved(SubSeq(d, 1, Len(d) - 1))
             row == d[Len(d)]
         IN  IF row.Process_Parameters \in DOMAIN rs THEN rs
             ELSE Put(rs, row.Process_Parameters, RowRange(row))

Resolved(d) ==
    LET rs == RowsResolved(d)
        dflt(m, name) == IF name \in DOMAIN m THEN m ELSE Put(m, name, DefaultOf(name))
    IN  dflt(dflt(dflt(rs, "CALIPER"), "BULK"), "MOISTURE")

\* C8: a row whose Min, Max or Average does not parse is skipped: the
\* function completes, and returns the map of the dataset without such rows.
C8_UnparseableRowSkipped ==
    /\ rpc # "raised"
    /\ rpc = "done" => ranges = Resolved(Parseable(df))

\* C9: every entry of the returned map has min <= max, also when the source
\* row has Min > Max.  Stated on the entries whose two bounds are numbers: an
\* entry with a missing (NaN) bound is left aside.
C9_MinLeMax ==
    rpc = "done" =>
        \A p \in DOMAIN ranges :
            (~ranges[p].min.nan /\ ~ranges[p].max.nan)
                => Le(ranges[p].min, ranges[p].max)

\* C10 as stated: for a dataset with zero rows the returned map is empty.
C10_EmptyMapAsStated ==
    (rpc = "done" /\ Len(df) = 0) => ranges = EmptyDict

\* C10 amended: for a dataset with zero rows the function returns exactly
\* the three default entries CALIPER, BULK and MOISTURE.
C10_DefaultsForEmptyDataset ==
    (rpc = "done" /\ Len(df) = 0) =>
        /\ DOMAIN ranges = DefaultNames
        /\ \A name \in DefaultNames : ranges[name] = DefaultOf(name)

\* C10 witness: the function has returned for the dataset with zero rows.
C10_Witness ==
    rpc = "done" /\ Len(df) = 0 /\ "MOISTURE" \in DOMAIN ranges

----------------------------------------------------------------------------
(* Text of the Quality column *)

IsSpace(c) == c = " "

\* str.strip(): the string without its leading and trailing whitespace
RECURSIVE LStrip(_)
LStrip(s) == IF Len(s) > 0 /\ IsSpace(s[1]) THEN LStrip(Tail(s)) ELSE s

RECURSIVE RStrip(_)
RStrip(s) ==
    IF Len(s) > 0 /\ IsSpace(s[Len(s)]) THEN RStrip(SubSeq(s, 1, Len(s) - 1)) ELSE s

Strip(s) == RStrip(LStrip(s))

\* str.upper(), on the letters the texts drawn hold
UpperChar(c) ==
    CASE c = "o" -> "O" [] c = "k" -> "K" [] c = "n" -> "N" [] c = "t" -> "T"
      [] c = "a" -> "A"
      [] OTHER -> c

Upper(s) == [i \in 1..Len(s) |-> UpperChar(s[i])]

\* the Quality values drawn: "OK", " ok ", "NOT OK"
QualityValues ==
    { <<"O", "K">>, <<" ", "o", "k", " ">>, <<"N", "O", "T", " ", "O", "K">> }

----------------------------------------------------------------------------
(* Track ID Search: the parameter analysis of the record found              *)
(* (lines 1059-1366).  get_parameter_ranges(df) has returned; the map it    *)
(* built from the dataset rows is drawn as row_ranges.                      *)

\* the measurement columns of the DataFrame, in column order
Columns == <<"CALIPER", "PLYBOND", "GSM">>
ColumnSet == {Columns[i] : i \in 1..Len(Columns)}

\* parameter_groups, flattened in iteration order (the groups and names the
\* model needs: BULK is listed but is no column of the dataset drawn)
GroupParams ==
    << [group |-> "Physical Properties", name |-> "CALIPER"],
       [group |-> "Physical Properties", name |-> "BULK"],
       [group |-> "Mechanical Properties", name |-> "PLYBOND"] >>

GroupedNames == {GroupParams[i].name : i \in 1..Len(GroupParams)}

\* quality_status = Quality.strip(); is_ok = quality_status.upper() == "OK"
is_ok(r) == Upper(Strip(r.Quality)) = <<"O", "K">>

\* all_zeros: every grouped column holds 0 or a value float() rejects
all_zeros(r) ==
    \A c \in ColumnSet \cap GroupedNames :
        float(r.cells[c]).exc # "" \/ FEq(float(r.cells[c]).f, F(0))

\* ranges plus the defaults get_parameter_ranges adds (lines 43-64)
WithDefaults(rs) ==
    WithDefault(WithDefault(WithDefault(rs, "CALIPER", CaliperDefault),
                            "BULK", BulkDefault),
                "MOISTURE", MoistureDefault)

\* a float handed on as an argument
FloatCell(f) == IF f.nan THEN NanCell ELSE Num(f.v)

\* pd.notna(value) and isinstance(value, (int, float)): a numpy.float64 is a
\* Python float, a numpy.int64 is no Python int, a str is neither
IsPlainNumber(x) == x.kind = "num"

\* param_range = next((ranges for param_name, ranges in
\*                     parameter_ranges.items() if param == param_name), None)
FoundAlways(rm, name) == TRUE
Found(rm, name) == name \in DOMAIN rm

RangeOf(rm, name) == IF name \in DOMAIN rm THEN rm[name] ELSE CaliperDefault

\* the param_data of one parameter (lines 1266-1279)
ParamData(r, rm, gp) ==
    LET value == r.cells[gp.name]
        rng == RangeOf(rm, gp.name)
        st == get_parameter_status(value, FloatCell(rng.min), FloatCell(rng.max))
    IN  [name |-> gp.name, value |-> float(value).f,
         min |-> rng.min, max |-> rng.max,
         deviation |-> st.deviation, status |-> st.status, group |-> gp.group]

\* the entry of failed_params of one column (lines 1131-1146)
FailedEntry(r, rm, c) ==
    LET value == float(r.cells[c]).f
        st == get_parameter_status(FloatCell(value), FloatCell(rm[c].min),
                                   FloatCell(rm[c].max))
    IN  [name |-> c, value |-> value, min |-> rm[c].min, max |-> rm[c].max,
         deviation |-> st.deviation, status |-> st.status]

\* the loop `for param in filtered_df.columns` over the first k columns
RECURSIVE CollectFailed(_, _, _)
CollectFailed(r, rm, k) ==
    IF k = 0 THEN <<>>
    ELSE LET before == CollectFailed(r, rm, k - 1)
             c == Columns[k]
         IN  IF c \in DOMAIN rm /\ float(r.cells[c]).exc = ""
                /\ FailedEntry(r, rm, c).status # "PASS"
             THEN Append(before, FailedEntry(r, rm, c))
             ELSE before

Abs(f) == IF f.nan THEN NaN ELSE F(IF f.v < 0 THEN 0 - f.v ELSE f.v)

\* key=lambda x: abs(x['deviation'])
sort_key_signed(x) == x.deviation
sort_key(x) == Abs(x.deviation)

Orders(n) ==
    {p \in [1..n -> 1..n] : \A i, j \in 1..n : p[i] = p[j] => i = j}

\* sorted(s, key=sort_key, reverse=True): the stable descending order.  When
\* a key is NaN the comparisons are inconsistent and the order sorted()
\* leaves depends on its implementation: every permutation is an outcome.
sorted_reverse(s) ==
    LET n == Len(s)
        ordered(p) ==
            \A i, j \in 1..n :
                i < j => \/ Gt(sort_key(s[p[i]]), sort_key(s[p[j]]))
                         \/ FEq(sort_key(s[p[i]]), sort_key(s[p[j]])) /\ p[i] < p[j]
        anyNaN == \E i \in 1..n : sort_key(s[i]).nan
    IN  { [i \in 1..n |-> s[p[i]]] : p \in {q \in Orders(n) : anyNaN \/ ordered(q)} }

\* quality_status = "FAIL" if failures else "PASS", drawn only
\* if total_valid_params > 0
PassAlways(valid, fails) == IF Len(valid) > 0 THEN "PASS" ELSE ""
OverallStatus(valid, fails) ==
    IF Len(valid) > 0 THEN (IF Len(fails) > 0 THEN "FAIL" ELSE "PASS") ELSE ""

\* the cells drawn for a grouped column: in range, out of range, missing,
\* an integer, text
GroupedCells == {Num(5), Num(50), NanCell, Int64(50), Str(<<"a", "b", "c">>)}
OtherCells == {Num(5), Num(50)}

Records ==
    { [cells |-> [c \in ColumnSet |->
                    IF c = "CALIPER" THEN a ELSE IF c = "PLYBOND" THEN b ELSE g],
       Quality |-> q, Process_Parameters |-> pp] :
        a \in GroupedCells, b \in GroupedCells, g \in OtherCells,
        q \in QualityValues, pp \in {"CALIPER", "GSM"} }

\* the ranges the dataset rows give each column: none, or one of these
CaliperRanges == {Range(F(0), F(10), F(5)), Range(F(20), F(10), F(15)),
                  Range(F(10), NaN, F(15))}
PlybondRanges == {Range(F(0), F(10), F(5)), Range(F(60), F(70), F(65))}
GsmRanges == {Range(F(0), F(10), F(5))}

RowRangeMaps ==
    { [c \in dom |-> IF c = "CALIPER" THEN a ELSE IF c = "PLYBOND" THEN b ELSE g] :
        dom \in SUBSET ColumnSet, a \in CaliperRanges, b \in PlybondRanges,
        g \in GsmRanges }

InitRecord ==
    /\ rec \in Records
    /\ row_ranges \in RowRangeMaps
    /\ rec.Process_Parameters \in DOMAIN row_ranges
    /\ parameter_ranges = EmptyDict
    /\ failed_params = <<>> /\ valid_params = <<>> /\ in_range_params = <<>>
    /\ out_of_range_params = <<>> /\ failures = <<>> /\ shown_failures = <<>>
    /\ overall = "" /\ gpos = 0 /\ epc = "start"
    /\ ClassifyIdle /\ RangesIdle /\ PopIdle /\ CompareIdle

\* parameter_ranges = get_parameter_ranges(df)
GetRanges ==
    /\ epc = "start"
    /\ parameter_ranges' = WithDefaults(row_ranges)
    /\ epc' = "lookup"
    /\ UNCHANGED <<rec, row_ranges, failed_params, valid_params, in_range_params,
                   out_of_range_params, failures, shown_failures, overall, gpos>>
    /\ UNCHANGED <<classifyVars, rangeVars, popVars, compareVars>>

\* current_value = float(filtered_df[param_name].iloc[0]) raises: the
\* handler of line 1368 ends the whole parameter analysis
ProcessLookupRaises ==
    /\ epc = "lookup"
    /\ float(rec.cells[rec.Process_Parameters]).exc # ""
    /\ epc' = "aborted"
    /\ UNCHANGED <<rec, row_ranges, parameter_ranges, failed_params, valid_params,
                   in_range_params, out_of_range_params, failures, shown_failures,
                   overall, gpos>>
    /\ UNCHANGED <<classifyVars, rangeVars, popVars, compareVars>>

\* the process parameter is read, its card drawn; for a record that is not
\* OK (and not all zeros) the failed parameters are collected and shown
ProcessLookup ==
    /\ epc = "lookup"
    /\ float(rec.cells[rec.Process_Parameters]).exc = ""
    /\ failed_params' =
          IF ~is_ok(rec) /\ ~all_zeros(rec)
          THEN CollectFailed(rec, row_ranges, Len(Columns))
          ELSE failed_params
    /\ epc' = "loop"
    /\ UNCHANGED <<rec, row_ranges, parameter_ranges, valid_params, in_range_params,
                   out_of_range_params, failures, shown_failures, overall, gpos>>
    /\ UNCHANGED <<classifyVars, rangeVars, popVars, compareVars>>

\* the parameter of this turn gets a verdict
Evaluated(gp) ==
    /\ gp.name \in ColumnSet
    /\ IsPlainNumber(rec.cells[gp.name])
    /\ Found(parameter_ranges, gp.name)

\* one turn of the loop over parameter_groups that emits nothing
ParamSkipped ==
    /\ epc = "loop" /\ gpos < Len(GroupParams)
    /\ ~Evaluated(GroupParams[gpos + 1])
    /\ gpos' = gpos + 1
    /\ UNCHANGED <<rec, row_ranges, parameter_ranges, failed_params, valid_params,
                   in_range_params, out_of_range_params, failures, shown_failures,
                   overall, epc>>
    /\ UNCHANGED <<classifyVars, rangeVars, popVars, compareVars>>

\* one turn of the loop that classifies the parameter and files its verdict
ParamVerdict ==
    /\ epc = "loop" /\ gpos < Len(GroupParams)
    /\ Evaluated(GroupParams[gpos + 1])
    /\ LET d == ParamData(rec, parameter_ranges, GroupParams[gpos + 1])
       IN  /\ valid_params' = Append(valid_params, d.name)
           /\ IF d.status = "PASS"
              THEN /\ in_range_params' = Append(in_range_params, d)
                   /\ UNCHANGED <<out_of_range_params, failures>>
              ELSE /\ out_of_range_params' = Append(out_of_range_params, d)
                   /\ failures' = Append(failures, d)
                   /\ UNCHANGED in_range_params
    /\ gpos' = gpos + 1
    /\ UNCHANGED <<rec, row_ranges, parameter_ranges, failed_params, shown_failures,
                   overall, epc>>
    /\ UNCHANGED <<classifyVars, rangeVars, popVars, compareVars>>

\* the failure summary in sorted order, then the Overall Status metric
Summarise ==
    /\ epc = "loop" /\ gpos = Len(GroupParams)
    /\ shown_failures' \in sorted_reverse(failures)
    /\ overall' = OverallStatus(valid_params, failures)
    /\ epc' = "done"
    /\ UNCHANGED <<rec, row_ranges, parameter_ranges, failed_params, valid_params,
                   in_range_params, out_of_range_params, failures, gpos>>
    /\ UNCHANGED <<classifyVars, rangeVars, popVars, compareVars>>

NextRecord ==
    \/ GetRanges
    \/ ProcessLookupRaises
    \/ ProcessLookup
    \/ ParamSkipped
    \/ ParamVerdict
    \/ Summarise

SpecRecord == InitRecord /\ [][NextRecord]_vars

----------------------------------------------------------------------------
(* Claims about the record evaluation *)

\* the verdicts emitted so far: the in-range and the out-of-range entries
Verdicts == in_range_params \o out_of_range_params

IsFail(st) == st \in {"FAIL_LOW", "FAIL_HIGH"}

SomeFailVerdict == \E i \in 1..Len(Verdicts) : IsFail(Verdicts[i].status)

\* the grouped parameters of a record with these cells that get a verdict,
\* and whether one of them fails: functions of the cells and the range map
\* alone, the Quality field is no argument
InScope(cells, rm) ==
    { i \in 1..Len(GroupParams) :
        /\ GroupParams[i].name \in DOMAIN cells
        /\ cells[GroupParams[i].name].kind = "num"
        /\ GroupParams[i].name \in DOMAIN rm }

FailsIn(cells, rm) ==
    \E i \in InScope(cells, rm) :
        LET n == GroupParams[i].name
        IN  IsFail(get_parameter_status(cells[n], FloatCell(rm[n].min),
                                        FloatCell(rm[n].max)).status)

\* C11 as stated: once the evaluation of a record is complete, the overall
\* status reported is FAIL if and only if some emitted verdict is FAIL_LOW or
\* FAIL_HIGH, and PASS otherwise.
C11_OverallStatusAsStated ==
    epc = "done" =>
        /\ overall = "FAIL" <=> SomeFailVerdict
        /\ ~SomeFailVerdict => overall = "PASS"

\* C11 amended: once the evaluation of a record is complete, an overall
\* status is reported exactly when at least one verdict was emitted; it is
\* then FAIL if and only if some emitted verdict is FAIL_LOW or FAIL_HIGH and
\* PASS otherwise, and it is determined by the record's values and the range
\* map alone, whatever the declared Quality says.
C11_OverallStatus ==
    epc = "done" =>
        /\ Len(Verdicts) = Len(valid_params)
        /\ Len(Verdicts) = 0 <=> overall = ""
        /\ Len(Verdicts) > 0 =>
              /\ overall = "FAIL" <=> SomeFailVerdict
              /\ overall = "PASS" <=> ~SomeFailVerdict
              /\ overall = "FAIL" <=> FailsIn(rec.cells, parameter_ranges)
        /\ is_ok(rec) /\ FailsIn(rec.cells, parameter_ranges) => overall = "FAIL"
        /\ ~is_ok(rec) /\ InScope(rec.cells, parameter_ranges) # {}
             /\ ~FailsIn(rec.cells, parameter_ranges) => overall = "PASS"

\* a record declared OK whose evaluation reports FAIL
C11_Witness ==
    /\ epc = "done" /\ is_ok(rec) /\ overall = "FAIL"
    /\ Len(in_range_params) > 0

\* the number of verdicts emitted for the parameter name
RECURSIVE CountNamed(_, _)
CountNamed(s, name) ==
    IF s = <<>> THEN 0
    ELSE (IF Head(s).name = name THEN 1 ELSE 0) + CountNamed(Tail(s), name)

\* C12: once the evaluation of a record is complete, every column that holds
\* a floating-point number in the record and is a key of the range map has
\* exactly one verdict.
C12_EveryRangedNumberGetsVerdict ==
    epc = "done" =>
        \A c \in ColumnSet :
            rec.cells[c].kind = "num" /\ c \in DOMAIN parameter_ranges
                => CountNamed(Verdicts, c) = 1

\* the names valid_params holds
ValidNames == {valid_params[i] : i \in 1..Len(valid_params)}

\* a column of the record that has no entry in the range map
Unranged(c) == c \in ColumnSet /\ epc # "start" /\ c \notin DOMAIN parameter_ranges

\* C13: a parameter present in the record with no entry in the range map has
\* no verdict: it is in no list of the evaluation (in range, out of range,
\* failures, failed parameters), no entry carries INVALID for it, and the
\* overall status is the one the other parameters give, whatever its value.
C13_NoRangeNoVerdict ==
    \A c \in ColumnSet :
        Unranged(c) =>
            /\ CountNamed(in_range_params, c) = 0
            /\ CountNamed(out_of_range_params, c) = 0
            /\ CountNamed(failures, c) = 0
            /\ CountNamed(failed_params, c) = 0
            /\ CountNamed(shown_failures, c) = 0
            /\ c \notin ValidNames
            /\ epc = "done" =>
                  \A x \in GroupedCells :
                      LET other == [rec.cells EXCEPT ![c] = x]
                      IN  /\ InScope(other, parameter_ranges)
                               = InScope(rec.cells, parameter_ranges)
                          /\ FailsIn(other, parameter_ranges)
                               = FailsIn(rec.cells, parameter_ranges)
                          /\ overall = "FAIL" <=> FailsIn(other, parameter_ranges)

\* PLYBOND holds 50 and has no range; the record is evaluated and passes on
\* its CALIPER verdict
C13_Witness ==
    /\ epc = "done" /\ Unranged("PLYBOND")
    /\ rec.cells["PLYBOND"] = Num(50)
    /\ overall = "PASS" /\ Len(in_range_params) = 1

\* the value of the column is missing (NaN) or no number at all
MissingOrText(c) == rec.cells[c].kind \in {"nan", "none", "str"}

\* C14: a column whose value is missing or not numeric and that has a range
\* is listed neither among the failed parameters of the record nor among its
\* verdicts.
C14_MissingValueSkipped ==
    \A c \in ColumnSet :
        MissingOrText(c) /\ c \in DOMAIN row_ranges =>
            /\ CountNamed(failed_params, c) = 0
            /\ CountNamed(Verdicts, c) = 0

\* the displayed failures are in descending order of |deviation|
Descending(s) ==
    \A i \in 1..(Len(s) - 1) : Le(Abs(s[i + 1].deviation), Abs(s[i].deviation))

\* the displayed failures are the failures collected, each once
SameEntries(s, u) ==
    /\ Len(s) = Len(u)
    /\ \A i \in 1..Len(s) : CountNamed(u, s[i].name) = CountNamed(s, s[i].name)
    /\ \A i \in 1..Len(s) : \E j \in 1..Len(u) : u[j] = s[i]

NoNaNDeviation(s) == \A i \in 1..Len(s) : ~s[i].deviation.nan

----------------------------------------------------------------------------
(* Overall Analysis: the parameter failure analysis of the NOT OK Track     *)
(* ids (lines 557-664)                                                      *)

\* the most rows a dataset of the failure analysis holds
MaxRecs == 2

TrackIds == {1, 2}

\* the numeric columns that are no excluded column, in column order
parameter_columns == <<"CALIPER", "PLYBOND">>

\* what a row holds besides Track and Quality: the process parameter the row
\* gives a range for, that range, and the two measurements
Measurements ==
    { [Process_Parameters |-> "CALIPER", Min |-> Num(10), Max |-> Num(20),
       Average |-> Num(15), CALIPER |-> Num(50), PLYBOND |-> Num(10)],
      [Process_Parameters |-> "CALIPER", Min |-> Num(20), Max |-> Num(10),
       Average |-> Num(15), CALIPER |-> Num(10), PLYBOND |-> Num(50)],
      [Process_Parameters |-> "GSM", Min |-> Num(10), Max |-> Num(20),
       Average |-> Num(15), CALIPER |-> Num(10), PLYBOND |-> Num(10)],
      [Process_Parameters |-> "GSM", Min |-> Num(10), Max |-> Num(20),
       Average |-> Num(15), CALIPER |-> Num(50), PLYBOND |-> Num(-10)],
      [Process_Parameters |-> "PLYBOND", Min |-> Num(0), Max |-> Num(20),
       Average |-> Num(10), CALIPER |-> NanCell, PLYBOND |-> Num(50)],
      [Process_Parameters |-> "GSM", Min |-> Num(10), Max |-> Num(20),
       Average |-> Num(15), CALIPER |-> Num(280), PLYBOND |-> NanCell] }

PopRows ==
    { [f \in {"Track", "Quality"} \cup DOMAIN m |->
          IF f = "Track" THEN tid ELSE IF f = "Quality" THEN q ELSE m[f]] :
        tid \in TrackIds, q \in QualityValues, m \in Measurements }

PopDataFrames == UNION { [1..k -> PopRows] : k \in 0..MaxRecs }

\* df['Quality'].str.strip().str.upper() != 'OK'
NotOkAsWritten(q) == q # <<"O", "K">>
NotOk(q) == Upper(Strip(q)) # <<"O", "K">>

\* df[mask]: the rows the mask keeps, in dataset order
NotOkRows(d) == SelectSeq(d, LAMBDA row : NotOk(row.Quality))

\* Series.unique(): the values in order of first appearance
keep_all(s) == s
RECURSIVE unique(_)
unique(s) ==
    IF s = <<>> THEN <<>>
    ELSE LET before == unique(SubSeq(s, 1, Len(s) - 1))
             x == s[Len(s)]
         IN  IF \E i \in 1..Len(before) : before[i] = x THEN before
             ELSE Append(before, x)

TracksOf(d) == [i \in 1..Len(d) |-> d[i].Track]

\* track_data = df[df['Track'] == track_id]
TrackData(d, track_id) == SelectSeq(d, LAMBDA row : row.Track = track_id)

\* .iloc[0]
last(s) == s[Len(s)]
iloc0(s) == s[1]

\* df[param].dropna(): the numbers of the column
Values(d, param) == {d[i][param].n : i \in {j \in 1..Len(d) : d[j][param].kind = "num"}}

SetMin(S) == CHOOSE x \in S : \A y \in S : x <= y
SetMax(S) == CHOOSE x \in S : \A y \in S : x >= y

AdHocNoFloor(d, param) ==
    [min |-> F(SetMin(Values(d, param)) - ((SetMax(Values(d, param)) - SetMin(Values(d, param))) \div 10)),
     max |-> F(SetMax(Values(d, param)) + ((SetMax(Values(d, param)) - SetMin(Values(d, param))) \div 10))]

\* the range taken from the observed values, widened by a tenth of its width
\* on each side and cut at 0 below (lines 597-610).  The values drawn are
\* multiples of 10, so range_width * 0.1 is range_width \div 10.  'avg' is
\* stored with the range and read nowhere in the analysis: it is left out.
AdHocRange(d, param) ==
    LET lo == SetMin(Values(d, param))
        hi == SetMax(Values(d, param))
        range_width == hi - lo
        widened == lo - (range_width \div 10)
    IN  [min |-> F(IF widened < 0 THEN 0 ELSE widened),
         max |-> F(hi + (range_width \div 10))]

\* param_rows = df[df['Process_Parameters'] == param]
ParamRows(d, param) == SelectSeq(d, LAMBDA row : row.Process_Parameters = param)

\* the loop of lines 583-614 over the first k parameter columns
RECURSIVE PopRanges(_, _)
PopRanges(d, k) ==
    IF k = 0 THEN EmptyDict
    ELSE LET rs == PopRanges(d, k - 1)
             param == parameter_columns[k]
             param_rows == ParamRows(d, param)
         IN  IF param_rows # <<>>
             THEN Put(rs, param, [min |-> float(iloc0(param_rows).Min).f,
                                  max |-> float(iloc0(param_rows).Max).f])
             ELSE IF Values(d, param) # {}
             THEN Put(rs, param, AdHocRange(d, param))
             ELSE rs

\* if not (min_val <= value <= max_val):
OutOfRange(value, rng) == ~(Le(rng.min, value) /\ Le(value, rng.max))

IncrementTwice(pf, param) ==
    IF param \in DOMAIN pf THEN [pf EXCEPT ![param] = @ + 2] ELSE Put(pf, param, 2)

\* param_failures[param] += 1, or = 1 for the first failure of the parameter
Increment(pf, param) ==
    IF param \in DOMAIN pf THEN [pf EXCEPT ![param] = @ + 1] ELSE Put(pf, param, 1)

\* the parameter of this Track id is counted as a failure
Counted(d, rs, track_id, param) ==
    LET value == iloc0(TrackData(d, track_id))[param]
    IN  /\ param \in DOMAIN rs
        /\ value.kind # "nan"
        /\ OutOfRange(float(value).f, rs[param])

\* the loop of lines 625-650 over the first k parameter columns
RECURSIVE CountTrackId(_, _, _, _, _)
CountTrackId(d, rs, track_id, pf, k) ==
    IF k = 0 THEN pf
    ELSE LET before == CountTrackId(d, rs, track_id, pf, k - 1)
         IN  IF Counted(d, rs, track_id, parameter_columns[k])
             THEN Increment(before, parameter_columns[k])
             ELSE before

\* (count / len(not_ok_track_ids) * 100).round(1), in tenths of a percent
PercentageTruncated(count, n) == (1000 * count) \div n
FailurePercentage(count, n) == (2000 * count + n) \div (2 * n)

\* list(param_failures.keys()) after a turn of the counting loop: a dict
\* keeps its keys in order of insertion, and the turn inserts the parameters
\* that fail for the first time in the order of parameter_columns
RECURSIVE KeysAfter(_, _, _)
KeysAfter(keys, pf, k) ==
    IF k = 0 THEN keys
    ELSE LET before == KeysAfter(keys, pf, k - 1)
             param == parameter_columns[k]
         IN  IF param \in DOMAIN pf /\ \A i \in 1..Len(before) : before[i] # param
             THEN Append(before, param)
             ELSE before

\* the row of count a, at place i of the frame, comes before the row of
\* count b at place j
BeforeAscending(a, b, i, j) == a < b \/ (a = b /\ i < j)
Before(a, b, i, j) == a > b \/ (a = b /\ i < j)

\* failure_data.sort_values('Failure Count', ascending=False).  The default
\* kind is quicksort, which numpy runs as an insertion sort on a frame this
\* short, and a descending sort is the sort of the reversed frame, reversed:
\* rows of equal count keep the order of the frame.
sort_values(rows) ==
    LET n == Len(rows)
        p == CHOOSE q \in Orders(n) :
                \A i, j \in 1..n :
                    i < j => Before(rows[q[i]].Count, rows[q[j]].Count, q[i], q[j])
    IN  [i \in 1..n |-> rows[p[i]]]

\* failure_data: one row per key of param_failures with its count and its
\* percentage, sorted (lines 654-664)
FailureData(keys, pf, n) ==
    sort_values([i \in 1..Len(keys) |->
                    [Parameter |-> keys[i], Count |-> pf[keys[i]],
                     Percentage |-> FailurePercentage(pf[keys[i]], n)]])

InitPopulation ==
    /\ pdf \in PopDataFrames
    /\ not_ok_rows = <<>> /\ not_ok_track_ids = <<>>
    /\ pop_ranges = EmptyDict /\ param_failures = EmptyDict
    /\ failure_data = <<>> /\ failure_keys = <<>> /\ tpos = 0 /\ ppc = "start"
    /\ ClassifyIdle /\ RangesIdle /\ RecordIdle /\ CompareIdle

\* no row is NOT OK: the analysis has nothing to show
NoNotOkRows ==
    /\ ppc = "start"
    /\ NotOkRows(pdf) = <<>>
    /\ not_ok_rows' = NotOkRows(pdf)
    /\ ppc' = "done"
    /\ UNCHANGED <<pdf, not_ok_track_ids, pop_ranges, param_failures, failure_data,
                   failure_keys, tpos>>
    /\ UNCHANGED <<classifyVars, rangeVars, recordVars, compareVars>>

\* the NOT OK rows and their unique Track ids
SelectNotOk ==
    /\ ppc = "start"
    /\ NotOkRows(pdf) # <<>>
    /\ not_ok_rows' = NotOkRows(pdf)
    /\ not_ok_track_ids' = unique(TracksOf(NotOkRows(pdf)))
    /\ ppc' = "ranges"
    /\ UNCHANGED <<pdf, pop_ranges, param_failures, failure_data, failure_keys, tpos>>
    /\ UNCHANGED <<classifyVars, rangeVars, recordVars, compareVars>>

\* param_ranges of every parameter column
DeriveRanges ==
    /\ ppc = "ranges"
    /\ pop_ranges' = PopRanges(pdf, Len(parameter_columns))
    /\ ppc' = "count"
    /\ UNCHANGED <<pdf, not_ok_rows, not_ok_track_ids, param_failures, failure_data,
                   failure_keys, tpos>>
    /\ UNCHANGED <<classifyVars, rangeVars, recordVars, compareVars>>

\* one turn of `for track_id in not_ok_track_ids`
CountTrack ==
    /\ ppc = "count" /\ tpos < Len(not_ok_track_ids)
    /\ param_failures' = CountTrackId(pdf, pop_ranges, not_ok_track_ids[tpos + 1],
                                      param_failures, Len(parameter_columns))
    /\ failure_keys' = KeysAfter(failure_keys, param_failures', Len(parameter_columns))
    /\ tpos' = tpos + 1
    /\ UNCHANGED <<pdf, not_ok_rows, not_ok_track_ids, pop_ranges, failure_data, ppc>>
    /\ UNCHANGED <<classifyVars, rangeVars, recordVars, compareVars>>

\* if param_failures: the table of counts and percentages
Tabulate ==
    /\ ppc = "count" /\ tpos = Len(not_ok_track_ids)
    /\ param_failures # EmptyDict
    /\ failure_data' = FailureData(failure_keys, param_failures, Len(not_ok_track_ids))
    /\ ppc' = "done"
    /\ UNCHANGED <<pdf, not_ok_rows, not_ok_track_ids, pop_ranges, param_failures,
                   failure_keys, tpos>>
    /\ UNCHANGED <<classifyVars, rangeVars, recordVars, compareVars>>

\* no parameter failed for any Track id: no table
NoFailures ==
    /\ ppc = "count" /\ tpos = Len(not_ok_track_ids)
    /\ param_failures = EmptyDict
    /\ ppc' = "done"
    /\ UNCHANGED <<pdf, not_ok_rows, not_ok_track_ids, pop_ranges, param_failures,
                   failure_data, failure_keys, tpos>>
    /\ UNCHANGED <<classifyVars, rangeVars, recordVars, compareVars>>

NextPopulation ==
    \/ NoNotOkRows
    \/ SelectNotOk
    \/ DeriveRanges
    \/ CountTrack
    \/ Tabulate
    \/ NoFailures

SpecPopulation == InitPopulation /\ [][NextPopulation]_vars
----------------------------------------------------------------------------
(* Claims about the population analysis *)

\* the failure count of the parameter so far
FailureCount(param) == IF param \in DOMAIN param_failures THEN param_failures[param] ELSE 0

\* the value the analysis reads for a Track id: that of the first row of the
\* dataset that carries the id
FirstRowWith(track_id) ==
    pdf[CHOOSE i \in 1..Len(pdf) :
            /\ pdf[i].Track = track_id
            /\ \A j \in 1..(i - 1) : pdf[j].Track # track_id]

\* the shared classifier does not pass the value of the Track id
ClassifierFails(track_id, param) ==
    LET value == FirstRowWith(track_id)[param]
    IN  /\ value.kind # "nan"
        /\ get_parameter_status(value, FloatCell(pop_ranges[param].min),
                                FloatCell(pop_ranges[param].max)).status # "PASS"

\* C16: at every point of the counting, the failure count of a parameter
\* with a range is the number of Track ids processed whose (present) value
\* get_parameter_status does not pass against that range, also when the
\* range has min > max.
C16_CountsAsClassifier ==
    ppc \in {"count", "done"} =>
        \A k \in 1..Len(parameter_columns) :
            LET param == parameter_columns[k]
            IN  param \in DOMAIN pop_ranges =>
                    FailureCount(param) =
                        Cardinality({i \in 1..tpos :
                                       ClassifierFails(not_ok_track_ids[i], param)})
\* C17: once the analysis has its ranges, a parameter column that holds a
\* value and has an entry in the map of get_parameter_ranges (a dataset row
\* or a fallback default) is evaluated against that entry's min and max, and
\* only a column with no entry there against the range derived from the
\* observed data.
C17_UsesResolverRanges ==
    ppc \in {"count", "done"} /\ not_ok_track_ids # <<>> =>
        \A k \in 1..Len(parameter_columns) :
            LET param == parameter_columns[k]
            IN  Values(pdf, param) # {} =>
                    /\ param \in DOMAIN pop_ranges
                    /\ IF param \in DOMAIN Resolved(pdf)
                       THEN /\ pop_ranges[param].min = Resolved(pdf)[param].min
                            /\ pop_ranges[param].max = Resolved(pdf)[param].max
                       ELSE pop_ranges[param] = AdHocRange(pdf, param)

\* the most unique failing Track ids the percentage is examined for
MaxIds == 10

\* p tenths of a percent is count / n * 100 rounded to one decimal: no other
\* number of tenths is nearer to 1000 * count / n
RoundedTenths(p, count, n) ==
    LET d == p * n - 1000 * count
    IN  2 * (IF d < 0 THEN 0 - d ELSE d) <= n

\* the NOT OK Track ids of the dataset, by the words of the claim alone
FailingIds == {pdf[i].Track : i \in {j \in 1..Len(pdf) : NotOk(pdf[j].Quality)}}

\* the percentage of every count out of 1..MaxIds ids is the rounded ratio
\* and lies within [0, 100]
PercentageOfEveryCount ==
    \A n \in 1..MaxIds : \A count \in 0..n :
        /\ RoundedTenths(FailurePercentage(count, n), count, n)
        /\ FailurePercentage(count, n) \in 0..1000

\* C18: every row of the failure tally carries the failure count of its
\* parameter and a percentage that is that count divided by the number of
\* unique NOT OK Track ids, times 100, rounded to one decimal, and within
\* [0, 100]; so is the percentage computed for every count out of up to
\* MaxIds ids, and 3 failures out of 10 ids give 30.0.
C18_FailurePercentage ==
    /\ ppc = "done" =>
          \A i \in 1..Len(failure_data) :
              LET row == failure_data[i]
              IN  /\ row.Count = FailureCount(row.Parameter)
                  /\ row.Count \in 1..Cardinality(FailingIds)
                  /\ RoundedTenths(row.Percentage, row.Count, Cardinality(FailingIds))
                  /\ row.Percentage \in 0..1000
    /\ PercentageOfEveryCount
    /\ FailurePercentage(3, 10) = 300

\* two NOT OK Track ids, CALIPER failing for one of them: count 1, 50.0 %
C18_Witness ==
    /\ ppc = "done" /\ Cardinality(FailingIds) = 2
    /\ \E i \in 1..Len(failure_data) :
          /\ failure_data[i].Parameter = "CALIPER"
          /\ failure_data[i].Count = 1
          /\ failure_data[i].Percentage = 500
\* the text is "OK" in some letter case between any spaces
Spaces(n) == [i \in 1..n |-> " "]

IsOkText(q) ==
    \E a \in 0..(Len(q) - 2) :
        /\ SubSeq(q, 1, a) = Spaces(a)
        /\ q[a + 1] \in {"O", "o"} /\ q[a + 2] \in {"K", "k"}
        /\ SubSeq(q, a + 3, Len(q)) = Spaces(Len(q) - a - 2)

\* C19: the failing subset of the analysis is the rows of the dataset, in
\* order, whose Quality is not "OK" in some letter case after trimming: a row
\* with "OK" or " ok " is left out, a row with "NOT OK" is in.
C19_FailingSubset ==
    ppc # "start" =>
        /\ not_ok_rows = SelectSeq(pdf, LAMBDA row : ~IsOkText(row.Quality))
        /\ \A i \in 1..Len(not_ok_rows) :
              not_ok_rows[i].Quality \notin {<<"O", "K">>, <<" ", "o", "k", " ">>}
        /\ Cardinality({i \in 1..Len(pdf) :
                          pdf[i].Quality = <<"N", "O", "T", " ", "O", "K">>})
              = Len(not_ok_rows)

\* a dataset with a row of Quality " ok " and a row "NOT OK": one failing row
C19_Witness ==
    /\ ppc = "done" /\ Len(pdf) = 2 /\ Len(not_ok_rows) = 1
    /\ pdf[1].Quality = <<" ", "o", "k", " ">>
    /\ not_ok_rows[1] = pdf[2]
\* the first row of the dataset with the Track id holds a value of the
\* parameter outside the parameter's range
FirstRowOutOfRange(track_id, param) ==
    LET value == FirstRowWith(track_id)[param]
    IN  /\ param \in DOMAIN pop_ranges
        /\ value.kind = "num"
        /\ ~(Le(pop_ranges[param].min, F(value.n)) /\ Le(F(value.n), pop_ranges[param].max))

\* C20: the Track ids processed are the failing ids, each once; the turn of
\* one id raises the failure count of a parameter by 1 if the first row of
\* the dataset carrying the id holds a value outside the range, and leaves it
\* as it is otherwise, however many rows share the id.
C20_OncePerTrackId ==
    /\ [][tpos' # tpos =>
            /\ tpos' = tpos + 1 /\ tpos' <= Len(not_ok_track_ids)
            /\ \A k \in 1..Len(parameter_columns) :
                  LET param == parameter_columns[k]
                  IN  FailureCount(param)' =
                          FailureCount(param) +
                          (IF FirstRowOutOfRange(not_ok_track_ids[tpos + 1], param)
                           THEN 1 ELSE 0)]_vars
    /\ [](ppc \in {"count", "done"} /\ not_ok_rows # <<>> =>
            /\ \A i, j \in 1..Len(not_ok_track_ids) :
                  not_ok_track_ids[i] = not_ok_track_ids[j] => i = j
            /\ {not_ok_track_ids[i] : i \in 1..Len(not_ok_track_ids)} = FailingIds)

\* two NOT OK rows share a Track id; the first holds CALIPER = 50, outside
\* 10-20, the second CALIPER = 10: the count of CALIPER is 1
C20_Witness ==
    /\ ppc = "done" /\ Len(pdf) = 2 /\ Len(not_ok_rows) = 2
    /\ pdf[1].Track = pdf[2].Track
    /\ pdf[1].Process_Parameters = "CALIPER"
    /\ pdf[1].CALIPER = Num(50) /\ pdf[2].CALIPER = Num(10)
    /\ FailureCount("CALIPER") = 1

\* the tally and its keys after the first k failing Track ids of a dataset,
\* and the failure list of the dataset: functions of the dataset alone
RECURSIVE TallyOf(_, _)
TallyOf(d, k) ==
    IF k = 0 THEN [pf |-> EmptyDict, keys |-> <<>>]
    ELSE LET before == TallyOf(d, k - 1)
             ids == unique(TracksOf(NotOkRows(d)))
             pf == CountTrackId(d, PopRanges(d, Len(parameter_columns)), ids[k],
                                before.pf, Len(parameter_columns))
         IN  [pf |-> pf, keys |-> KeysAfter(before.keys, pf, Len(parameter_columns))]

FailureListOf(d) ==
    LET n == Len(unique(TracksOf(NotOkRows(d))))
    IN  FailureData(TallyOf(d, n).keys, TallyOf(d, n).pf, n)

\* the place of the parameter among the keys of the tally
KeyPlace(param) == CHOOSE i \in 1..Len(failure_keys) : failure_keys[i] = param

\* C21: the failure list holds every parameter of the tally once, any two
\* consecutive entries have the count of the earlier >= that of the later,
\* entries of equal count stand in the order their parameters entered the
\* tally, and the list is the one the dataset alone determines.
C21_DescendingFailureCount ==
    ppc = "done" /\ param_failures # EmptyDict =>
        /\ {failure_data[i].Parameter : i \in 1..Len(failure_data)} = DOMAIN param_failures
        /\ Len(failure_data) = Cardinality(DOMAIN param_failures)
        /\ \A i \in 1..(Len(failure_data) - 1) :
              /\ failure_data[i].Count >= failure_data[i + 1].Count
              /\ failure_data[i].Count = failure_data[i + 1].Count =>
                    KeyPlace(failure_data[i].Parameter)
                        < KeyPlace(failure_data[i + 1].Parameter)
        /\ failure_data = FailureListOf(pdf)

\* CALIPER entered the tally before PLYBOND and has the lower count: PLYBOND
\* with count 2 is listed first
C21_Witness ==
    /\ ppc = "done" /\ failure_keys = <<"CALIPER", "PLYBOND">>
    /\ Len(failure_data) = 2
    /\ failure_data[1].Parameter = "PLYBOND" /\ failure_data[1].Count = 2
    /\ failure_data[2].Count = 1

\* a parameter column no row of the dataset gives a range for, holding a value
NoRangeRow(param) ==
    /\ \A i \in 1..Len(pdf) : pdf[i].Process_Parameters # param
    /\ \E i \in 1..Len(pdf) : pdf[i][param].kind = "num"

\* lo (hi) is the least (greatest) non-missing value of the column over the
\* whole dataset
IsLo(param, lo) ==
    /\ \E i \in 1..Len(pdf) : pdf[i][param] = Num(lo)
    /\ \A i \in 1..Len(pdf) : pdf[i][param].kind = "num" => lo <= pdf[i][param].n

IsHi(param, hi) ==
    /\ \E i \in 1..Len(pdf) : pdf[i][param] = Num(hi)
    /\ \A i \in 1..Len(pdf) : pdf[i][param].kind = "num" => hi >= pdf[i][param].n

\* C22: once the ranges are derived, a parameter without a range row has
\* min = max(0, lo - 0.1 * (hi - lo)) and max = hi + 0.1 * (hi - lo), lo and
\* hi being the least and greatest non-missing value of its column over the
\* whole dataset (stated on ten times the bounds).
C22_AdHocRange ==
    ppc \in {"count", "done"} /\ not_ok_rows # <<>> =>
        \A k \in 1..Len(parameter_columns) :
            LET param == parameter_columns[k]
            IN  NoRangeRow(param) =>
                    /\ param \in DOMAIN pop_ranges
                    /\ \A lo, hi \in {pdf[i][param].n : i \in 1..Len(pdf)} :
                          IsLo(param, lo) /\ IsHi(param, hi) =>
                              /\ ~pop_ranges[param].min.nan /\ ~pop_ranges[param].max.nan
                              /\ 10 * pop_ranges[param].min.v
                                    = (IF 10 * lo - (hi - lo) < 0 THEN 0
                                       ELSE 10 * lo - (hi - lo))
                              /\ 10 * pop_ranges[param].max.v = 10 * hi + (hi - lo)

\* CALIPER has no range row and the values 50 and 280, one of them on an OK
\* row: its range is 27 to 303
C22_Witness ==
    /\ ppc = "done" /\ NoRangeRow("CALIPER")
    /\ IsLo("CALIPER", 50) /\ IsHi("CALIPER", 280)
    /\ Len(not_ok_rows) = 1
    /\ pop_ranges["CALIPER"] = [min |-> F(27), max |-> F(303)]

\* the value lies inside the range the analysis holds for the parameter
Inside(param, v) ==
    /\ ~pop_ranges[param].min.nan /\ ~pop_ranges[param].max.nan
    /\ pop_ranges[param].min.v <= v /\ v <= pop_ranges[param].max.v

\* the Track ids processed so far whose first row holds a negative value
NegativeIds(param) ==
    {i \in 1..tpos :
        /\ FirstRowWith(not_ok_track_ids[i])[param].kind = "num"
        /\ FirstRowWith(not_ok_track_ids[i])[param].n < 0}

C28_TallyBounds ==
    ppc \in {"count", "done"} =>
        /\ DOMAIN param_failures \subseteq {parameter_columns[k] : k \in 1..Len(parameter_columns)}
        /\ \A param \in DOMAIN param_failures :
              param_failures[param] >= 1 /\ param_failures[param] <= tpos
        /\ \A k \in 1..Len(parameter_columns) :
              (\A i \in 1..tpos :
                  ~Counted(pdf, pop_ranges, not_ok_track_ids[i], parameter_columns[k]))
                => parameter_columns[k] \notin DOMAIN param_failures

\* one of two failing Track ids is processed: CALIPER has count 1, PLYBOND,
\* which did not fail, is absent
C28_Witness ==
    /\ ppc = "count" /\ tpos = 1 /\ Len(not_ok_track_ids) = 2
    /\ DOMAIN param_failures = {"CALIPER"}
    /\ param_failures["CALIPER"] = 1
    /\ "PLYBOND" \in DOMAIN pop_ranges

\* C26: a coercion or lookup failure on one parameter of the record, its
\* process parameter included, excludes only that parameter: when the
\* analysis has ended, every other in-scope parameter has its verdict and the
\* overall status is reported.
C26_FailureExcludesOnlyItsParameter ==
    epc \in {"done", "aborted"} =>
        /\ \A i \in InScope(rec.cells, parameter_ranges) :
              CountNamed(Verdicts, GroupParams[i].name) = 1
        /\ InScope(rec.cells, parameter_ranges) # {} => overall \in {"PASS", "FAIL"}

\* the names the list holds
NamesOf(s) == {s[i].name : i \in 1..Len(s)}

\* C29: for a record declared NOT OK whose analysis has ended, the
\* parameters under 'Failed Parameters' are the parameters of the
\* out-of-range list, each with the same min, max and deviation in both.
\* Stated on the records all of whose values are floating-point numbers.
C29_FailureViewsAgree ==
    epc = "done" /\ ~is_ok(rec) /\ (\A c \in ColumnSet : rec.cells[c].kind = "num") =>
        /\ NamesOf(failed_params) = NamesOf(out_of_range_params)
        /\ \A i \in 1..Len(failed_params) : \A j \in 1..Len(out_of_range_params) :
              failed_params[i].name = out_of_range_params[j].name =>
                  /\ failed_params[i].min = out_of_range_params[j].min
                  /\ failed_params[i].max = out_of_range_params[j].max
                  /\ failed_params[i].deviation = out_of_range_params[j].deviation

----------------------------------------------------------------------------
(* Parameter Comparison: the rows selected by parameter, grade and machine, *)
(* the range of the first of them and the labelled values of their Track    *)
(* ids (lines 1489-1682)                                                    *)

\* the most rows a dataset of the comparison holds
MaxCmp == 2

All == <<"A", "l", "l">>
Grade1 == <<"A", " ", "1">>
Grade2 == <<"A", " ", "2">>

\* what a row holds besides its Track id.  GRADE is read only when the
\* dataset has that column; Notes is a free-text column.
CmpShapes ==
    { [Process_Parameters |-> "CALIPER", GRADE |-> Grade1,
       Notes |-> <<"a", " ", "1">>, M_C |-> "PM1",
       Min |-> Num(10), Max |-> Num(20), Average |-> Num(15), CALIPER |-> Num(15)],
      [Process_Parameters |-> "CALIPER", GRADE |-> <<" ", "a", " ", "1", " ">>,
       Notes |-> <<>>, M_C |-> "PM2",
       Min |-> Num(20), Max |-> Num(10), Average |-> Num(15), CALIPER |-> Num(15)],
      [Process_Parameters |-> "CALIPER", GRADE |-> Grade2,
       Notes |-> <<"a", " ", "1">>, M_C |-> "PM1",
       Min |-> Num(10), Max |-> Num(20), Average |-> Num(15), CALIPER |-> Num(50)],
      [Process_Parameters |-> "CALIPER", GRADE |-> Grade2,
       Notes |-> <<"a", " ", "2">>, M_C |-> "PM2",
       Min |-> Num(100), Max |-> Num(200), Average |-> Num(150), CALIPER |-> NanCell],
      [Process_Parameters |-> "GSM", GRADE |-> Grade1,
       Notes |-> <<"a", " ", "1">>, M_C |-> "PM1",
       Min |-> Num(10), Max |-> Num(20), Average |-> Num(15), CALIPER |-> Num(50)],
      [Process_Parameters |-> "CALIPER", GRADE |-> Grade2,
       Notes |-> <<>>, M_C |-> "PM1",
       Min |-> Num(0), Max |-> Num(10), Average |-> Num(5),
       CALIPER |-> Str(<<"a", "b", "c">>)] }

CmpRows ==
    { [f \in {"Track"} \cup DOMAIN m |-> IF f = "Track" THEN tid ELSE m[f]] :
        tid \in TrackIds, m \in CmpShapes }

CmpDataFrames == UNION { [1..k -> CmpRows] : k \in 1..MaxCmp }

\* the columns of the DataFrame a value of the parameter can be read from
ValueColumns == {"CALIPER"}

\* sub in s
Contains(s, sub) ==
    \E i \in 0..(Len(s) - Len(sub)) : SubSeq(s, i + 1, i + Len(sub)) = sub

IsLetter(c) == c \in {"a", "A", "b", "c", "l"}

\* re.search(r'\b[A-Za-z]+\s+\d+\b', val_str), or "PACK" / "GRADE" in the
\* text: a word, white space, a number
LooksLikeGrade(s) ==
    \E i \in 1..(Len(s) - 2) :
        /\ IsLetter(s[i]) /\ IsSpace(s[i + 1]) /\ IsDigit(s[i + 2])
        /\ i + 2 = Len(s) \/ ~IsLetter(s[i + 3])

\* the options of the grade selectbox besides "All" (lines 1401-1450): the
\* values of the GRADE column, or without that column the texts that look
\* like a grade, stripped and in upper case
GradesOf(d, hasGrade) ==
    IF hasGrade
    THEN {Upper(Strip(d[i].GRADE)) : i \in 1..Len(d)}
    ELSE {Upper(Strip(d[i].Notes)) : i \in {j \in 1..Len(d) : LooksLikeGrade(Strip(d[j].Notes))}}

\* the text values of a row that can hold a grade, in column order.  The
\* other str values of a row (Process_Parameters, M_C, a text under the
\* parameter's column) hold no white space, and every grade offered holds
\* some: the scan never finds a grade in them.
TextValues(row, hasGrade) == IF hasGrade THEN <<row.GRADE, row.Notes>> ELSE <<row.Notes>>

\* the scan of one row (lines 1511-1526): some text value holds the grade,
\* case-insensitively.  The test of the comma-separated parts that follows
\* accepts only a value one of whose parts holds the grade, and such a value
\* holds the grade itself: it adds no row.
RowMatches(row, hasGrade, grade) ==
    \E i \in 1..Len(TextValues(row, hasGrade)) :
        Contains(Upper(TextValues(row, hasGrade)[i]), Upper(grade))

\* filtered_rows after `for _, row in data.iterrows()`: the loop is left at
\* the first row found (`if found: break`)
FirstMatching(data, hasGrade, grade) ==
    LET hits == {i \in 1..Len(data) : RowMatches(data[i], hasGrade, grade)}
    IN  IF hits = {} THEN <<>>
        ELSE <<data[CHOOSE i \in hits : \A j \in hits : i <= j]>>

\* data[data['GRADE'].astype(str).str.strip().str.upper() == selected_grade.upper()]
ExactGrade(data, grade) ==
    SelectSeq(data, LAMBDA row : Upper(Strip(row.GRADE)) = Upper(grade))

\* the search of lines 1504-1532, entered when the exact match left
\* filtered_data empty: it iterates filtered_data, the frame just emptied
SearchAfterExact(emptied, hasGrade, grade) ==
    IF FirstMatching(emptied, hasGrade, grade) # <<>>
    THEN FirstMatching(emptied, hasGrade, grade)
    ELSE emptied

\* the search of lines 1534-1562 (no GRADE column) and of lines 1586-1647
\* (all_tracks_data): the first row found, or the frame as it was
SearchOrKeep(data, hasGrade, grade) ==
    IF FirstMatching(data, hasGrade, grade) # <<>>
    THEN FirstMatching(data, hasGrade, grade)
    ELSE data

\* the grade filter of all_tracks_data (lines 1578-1647)
TracksByGrade(data, hasGrade, grade) ==
    IF grade = All THEN data
    ELSE IF hasGrade /\ ExactGrade(data, grade) # <<>> THEN ExactGrade(data, grade)
    ELSE SearchOrKeep(data, hasGrade, grade)

\* data[data['M_C'] == selected_machine], if a machine is selected
ByMachine(data, machine) ==
    IF machine = "All" THEN data ELSE SelectSeq(data, LAMBDA row : row.M_C = machine)

\* param_min, param_max, param_avg = float(filtered_data[...].iloc[0])
RangeOfLastRow(data) == RowRange(last(data))
RangeOfFirstRow(data) == RowRange(iloc0(data))

\* status = "Within Range" if min_val <= float_value <= max_val else "Outside Range"
Label(value, rng) ==
    IF Le(rng.min, value) /\ Le(value, rng.max) THEN "Within Range" ELSE "Outside Range"

InitCompare ==
    /\ cmp_df \in CmpDataFrames
    /\ grade_column_present \in BOOLEAN
    /\ selected_parameter \in {cmp_df[i].Process_Parameters : i \in 1..Len(cmp_df)}
    /\ selected_grade \in {All} \cup GradesOf(cmp_df, grade_column_present)
    /\ selected_machine \in {"All"} \cup {cmp_df[i].M_C : i \in 1..Len(cmp_df)}
    /\ filtered_data = <<>> /\ all_tracks_data = <<>>
    /\ param_range = [min |-> NaN, max |-> NaN, avg |-> NaN]
    /\ track_ids = <<>> /\ track_values = <<>> /\ kpos = 0 /\ xpc = "start"
    /\ ClassifyIdle /\ RangesIdle /\ RecordIdle /\ PopIdle

\* filtered_data = df[df['Process_Parameters'] == selected_parameter]
FilterByParameter ==
    /\ xpc = "start"
    /\ filtered_data' = ParamRows(cmp_df, selected_parameter)
    /\ xpc' = "grade"
    /\ UNCHANGED <<cmp_df, grade_column_present, selected_parameter, selected_grade,
                   selected_machine, all_tracks_data, param_range, track_ids,
                   track_values, kpos>>
    /\ UNCHANGED <<classifyVars, rangeVars, recordVars, popVars>>

\* selected_grade == "All": no grade filter
GradeNotRequested ==
    /\ xpc = "grade" /\ selected_grade = All
    /\ xpc' = "machine"
    /\ UNCHANGED <<cmp_df, grade_column_present, selected_parameter, selected_grade,
                   selected_machine, filtered_data, all_tracks_data, param_range,
                   track_ids, track_values, kpos>>
    /\ UNCHANGED <<classifyVars, rangeVars, recordVars, popVars>>

\* the GRADE column has rows of the grade: they are the selection
GradeExact ==
    /\ xpc = "grade" /\ selected_grade # All /\ grade_column_present
    /\ ExactGrade(filtered_data, selected_grade) # <<>>
    /\ filtered_data' = ExactGrade(filtered_data, selected_grade)
    /\ xpc' = "machine"
    /\ UNCHANGED <<cmp_df, grade_column_present, selected_parameter, selected_grade,
                   selected_machine, all_tracks_data, param_range, track_ids,
                   track_values, kpos>>
    /\ UNCHANGED <<classifyVars, rangeVars, recordVars, popVars>>

\* the GRADE column has no row of the grade: filtered_data is emptied
\* (line 1501) and then searched (lines 1504-1532)
GradeSearchAfterExact ==
    /\ xpc = "grade" /\ selected_grade # All /\ grade_column_present
    /\ ExactGrade(filtered_data, selected_grade) = <<>>
    /\ filtered_data' = SearchAfterExact(ExactGrade(filtered_data, selected_grade),
                                         grade_column_present, selected_grade)
    /\ xpc' = "machine"
    /\ UNCHANGED <<cmp_df, grade_column_present, selected_parameter, selected_grade,
                   selected_machine, all_tracks_data, param_range, track_ids,
                   track_values, kpos>>
    /\ UNCHANGED <<classifyVars, rangeVars, recordVars, popVars>>

\* no GRADE column: the text values of the rows are searched
GradeSearch ==
    /\ xpc = "grade" /\ selected_grade # All /\ ~grade_column_present
    /\ filtered_data' = SearchOrKeep(filtered_data, grade_column_present, selected_grade)
    /\ xpc' = "machine"
    /\ UNCHANGED <<cmp_df, grade_column_present, selected_parameter, selected_grade,
                   selected_machine, all_tracks_data, param_range, track_ids,
                   track_values, kpos>>
    /\ UNCHANGED <<classifyVars, rangeVars, recordVars, popVars>>

\* the machine filter leaves no row: nothing is compared
NothingSelected ==
    /\ xpc = "machine"
    /\ ByMachine(filtered_data, selected_machine) = <<>>
    /\ filtered_data' = ByMachine(filtered_data, selected_machine)
    /\ xpc' = "done"
    /\ UNCHANGED <<cmp_df, grade_column_present, selected_parameter, selected_grade,
                   selected_machine, all_tracks_data, param_range, track_ids,
                   track_values, kpos>>
    /\ UNCHANGED <<classifyVars, rangeVars, recordVars, popVars>>

\* the machine filter, then min, max and average of the first row left
ResolveRange ==
    /\ xpc = "machine"
    /\ ByMachine(filtered_data, selected_machine) # <<>>
    /\ filtered_data' = ByMachine(filtered_data, selected_machine)
    /\ param_range' = RangeOfFirstRow(ByMachine(filtered_data, selected_machine))
    /\ xpc' = "tracks"
    /\ UNCHANGED <<cmp_df, grade_column_present, selected_parameter, selected_grade,
                   selected_machine, all_tracks_data, track_ids, track_values, kpos>>
    /\ UNCHANGED <<classifyVars, rangeVars, recordVars, popVars>>

\* all_tracks_data by parameter, grade and machine, and its unique Track ids
SelectTracks ==
    /\ xpc = "tracks"
    /\ LET data == ByMachine(TracksByGrade(ParamRows(cmp_df, selected_parameter),
                                           grade_column_present, selected_grade),
                             selected_machine)
       IN  /\ all_tracks_data' = data
           /\ track_ids' = unique(TracksOf(data))
    /\ xpc' = "label"
    /\ UNCHANGED <<cmp_df, grade_column_present, selected_parameter, selected_grade,
                   selected_machine, filtered_data, param_range, track_values, kpos>>
    /\ UNCHANGED <<classifyVars, rangeVars, recordVars, popVars>>

\* the value read for a Track id: the parameter's column of the first row
\* of the dataset with that id
TrackValue(track) == iloc0(TrackData(cmp_df, track))[selected_parameter]

\* the Track id of this turn gets a labelled value
Labelled(track) ==
    /\ selected_parameter \in ValueColumns
    /\ TrackValue(track).kind # "nan"
    /\ float(TrackValue(track)).exc = ""

\* one turn of `for track in track_ids` that appends nothing
TrackSkipped ==
    /\ xpc = "label" /\ kpos < Len(track_ids)
    /\ ~Labelled(track_ids[kpos + 1])
    /\ kpos' = kpos + 1
    /\ UNCHANGED <<cmp_df, grade_column_present, selected_parameter, selected_grade,
                   selected_machine, filtered_data, all_tracks_data, param_range,
                   track_ids, track_values, xpc>>
    /\ UNCHANGED <<classifyVars, rangeVars, recordVars, popVars>>

\* one turn of `for track in track_ids` that appends the labelled value
TrackLabelled ==
    /\ xpc = "label" /\ kpos < Len(track_ids)
    /\ Labelled(track_ids[kpos + 1])
    /\ track_values' =
          Append(track_values,
                 [Track |-> track_ids[kpos + 1],
                  Value |-> float(TrackValue(track_ids[kpos + 1])).f,
                  Status |-> Label(float(TrackValue(track_ids[kpos + 1])).f, param_range)])
    /\ kpos' = kpos + 1
    /\ UNCHANGED <<cmp_df, grade_column_present, selected_parameter, selected_grade,
                   selected_machine, filtered_data, all_tracks_data, param_range,
                   track_ids, xpc>>
    /\ UNCHANGED <<classifyVars, rangeVars, recordVars, popVars>>

\* every Track id is processed: the comparison is drawn
ShowComparison ==
    /\ xpc = "label" /\ kpos = Len(track_ids)
    /\ xpc' = "done"
    /\ UNCHANGED <<cmp_df, grade_column_present, selected_parameter, selected_grade,
                   selected_machine, filtered_data, all_tracks_data, param_range,
                   track_ids, track_values, kpos>>
    /\ UNCHANGED <<classifyVars, rangeVars, recordVars, popVars>>

NextCompare ==
    \/ FilterByParameter
    \/ GradeNotRequested
    \/ GradeExact
    \/ GradeSearchAfterExact
    \/ GradeSearch
    \/ NothingSelected
    \/ ResolveRange
    \/ SelectTracks
    \/ TrackSkipped
    \/ TrackLabelled
    \/ ShowComparison

SpecCompare == InitCompare /\ [][NextCompare]_vars

----------------------------------------------------------------------------
(* Claims about the parameter comparison *)

\* the rows of the requested parameter, and the row holds the requested
\* grade: exactly in its GRADE column, or somewhere in a text value
RequestedRows == SelectSeq(cmp_df, LAMBDA row : row.Process_Parameters = selected_parameter)

ExactOnGrade(row) ==
    grade_column_present /\ Upper(Strip(row.GRADE)) = Upper(selected_grade)

HoldsGrade(row) ==
    \/ grade_column_present /\ Contains(Upper(row.GRADE), Upper(selected_grade))
    \/ Contains(Upper(row.Notes), Upper(selected_grade))

\* C23: when a grade is requested, the dataset has a GRADE column and no row
\* of the requested parameter matches it exactly, the selection after the
\* grade filter is made of rows of the parameter that hold the grade as a
\* substring of a text value, and is not empty if there is such a row.
C23_FallsBackToSubstring ==
    ( /\ xpc = "machine" /\ selected_grade # All /\ grade_column_present
      /\ \A i \in 1..Len(RequestedRows) : ~ExactOnGrade(RequestedRows[i]) )
    => /\ \A i \in 1..Len(filtered_data) : HoldsGrade(filtered_data[i])
       /\ (\E i \in 1..Len(RequestedRows) : HoldsGrade(RequestedRows[i]))
             => filtered_data # <<>>

\* C24: every labelled value of the comparison is Within Range if and only
\* if get_parameter_status passes it against the min and max of the
\* comparison, also when that min is above that max.
C24_LabelAsClassifier ==
    \A i \in 1..Len(track_values) :
        track_values[i].Status = "Within Range"
            <=> get_parameter_status(FloatCell(track_values[i].Value),
                                     FloatCell(param_range.min),
                                     FloatCell(param_range.max)).status = "PASS"

\* s holds rows of d in the order of d
InOrderOf(s, d) ==
    \E f \in [1..Len(s) -> 1..Len(d)] :
        /\ \A i, j \in 1..Len(s) : i < j => f[i] < f[j]
        /\ \A i \in 1..Len(s) : s[i] = d[f[i]]

\* C25: once the range of the comparison is resolved, the rows left by the
\* filters are rows of the requested parameter and machine in dataset order,
\* min, max and target are the Min, Max and Average of the first of them,
\* and every labelled value is Within Range exactly when it lies between
\* that min and that max, whatever range the rows of its own Track id carry.
C25_RangeOfFirstRow ==
    xpc \in {"tracks", "label", "done"} /\ filtered_data # <<>> =>
        /\ InOrderOf(filtered_data, cmp_df)
        /\ \A i \in 1..Len(filtered_data) :
              /\ filtered_data[i].Process_Parameters = selected_parameter
              /\ selected_machine # "All" => filtered_data[i].M_C = selected_machine
        /\ param_range.min = F(filtered_data[1].Min.n)
        /\ param_range.max = F(filtered_data[1].Max.n)
        /\ param_range.avg = F(filtered_data[1].Average.n)
        /\ \A i \in 1..Len(track_values) :
              track_values[i].Status = "Within Range"
                  <=> /\ filtered_data[1].Min.n <= track_values[i].Value.v
                      /\ track_values[i].Value.v <= filtered_data[1].Max.n

\* two rows are left, the first with the range 10-20 and the second with
\* 20-10: the comparison has min 10 and max 20, and the value 15 of the
\* second row's Track id is Within Range
C25_Witness ==
    /\ xpc = "done" /\ Len(filtered_data) = 2
    /\ filtered_data[1].Min = Num(10) /\ filtered_data[2].Min = Num(20)
    /\ filtered_data[1].Track # filtered_data[2].Track
    /\ param_range = Range(F(10), F(20), F(15))
    /\ Len(track_values) = 2
    /\ track_values[2].Status = "Within Range"

\* C30: when a grade is requested, every row the grade filter keeps, in
\* filtered_data and in all_tracks_data, matches the grade exactly in its
\* GRADE column or holds it in a text value; so the selection is empty when
\* no row of the requested parameter does.
C30_KeptRowsMatchGrade ==
    selected_grade # All =>
        /\ xpc \in {"machine", "tracks", "label", "done"} =>
              \A i \in 1..Len(filtered_data) :
                  ExactOnGrade(filtered_data[i]) \/ HoldsGrade(filtered_data[i])
        /\ xpc \in {"label", "done"} =>
              \A i \in 1..Len(all_tracks_data) :
                  ExactOnGrade(all_tracks_data[i]) \/ HoldsGrade(all_tracks_data[i])

====
